---- MODULE Spec2Model ----
(***************************************************************************)
(* Model of the nucleoid persistence backend: the xtra actor               *)
(* MongoDatabaseHandler (src/src/database.rs), the stat value model        *)
(* (src/src/model.rs) and the request handlers that enqueue messages to    *)
(* the actor (src/src/web.rs).  The MongoDB collections are modelled as    *)
(* collections of raw documents; every store round trip is one worker      *)
(* step and may fail.                                                      *)
(***************************************************************************)
EXTENDS Integers, Sequences, FiniteSets, TLC

(* ------------------------------ bounds --------------------------------- *)

\* number of requests the HTTP layer receives in one behaviour
MaxRequests == 3
\* number of store round trips that fail for a transport reason
MaxFaults == 1
\* samples and amounts are drawn from 1..MaxValue
MaxValue == 2

Players == {"p1", "p2"}
Usernames == {"alice", "bob"}
Namespaces == {"ffa"}

\* Option::None
None == "None"

\* A stat name is the sequence of its segments between '.' characters:
\* "kills" is <<"kills">>, "kills.count" is <<"kills", "count">>.
StatNames == {<<"kills">>, <<"kills", "count">>}

(* --------------------------- BSON values ------------------------------- *)

Int32(n) == [bt |-> "int32", n |-> n]
Double(n) == [bt |-> "double", n |-> n]
Str(s) == [bt |-> "string", s |-> s]
Numeric == {"int32", "double"}

EmptyMap == [p \in {} |-> None]

IsPrefix(p, q) == Len(p) <= Len(q) /\ SubSeq(q, 1, Len(p)) = p
ProperPrefix(p, q) == Len(p) < Len(q) /\ IsPrefix(p, q)

(* ------------------------- model.rs: UploadStat ------------------------ *)

Variants == {"IntTotal", "IntRollingAverage", "FloatTotal", "FloatRollingAverage"}
UploadStat == [variant : Variants, value : 1..MaxValue]

\* the BSON number an UploadStat carries: i32 for the Int variants, f64 for
\* the Float variants
UploadValue(stat) ==
    IF stat.variant \in {"IntTotal", "IntRollingAverage"}
    THEN Int32(stat.value) ELSE Double(stat.value)

\* the tag written by the $set of each variant
IncrementTypeTag(variant) ==
    CASE variant = "IntTotal" -> "int_total"
      [] variant = "IntRollingAverage" -> "int_rolling_average"
      [] variant = "FloatTotal" -> "float_total"
      [] variant = "FloatRollingAverage" -> "float_rolling_average"

\* create_increment_operation writing the amount with $set instead of $inc
create_increment_operation_set(stat, id) ==
    LET value_key == <<"stats">> \o id \o <<"value">>
        type_key == <<"stats">> \o id \o <<"type">>
        total_key == value_key \o <<"total">>
        count_key == value_key \o <<"count">>
        set == (type_key :> Str(IncrementTypeTag(stat.variant)))
    IN  IF stat.variant \in {"IntTotal", "FloatTotal"}
        THEN [inc |-> EmptyMap, set |-> set @@ (value_key :> UploadValue(stat))]
        ELSE [inc |-> (total_key :> UploadValue(stat)) @@ (count_key :> Int32(1)),
              set |-> set]

\* create_increment_operation whose averages add to the total and leave the
\* count alone
create_increment_operation_total_only(stat, id) ==
    LET value_key == <<"stats">> \o id \o <<"value">>
        type_key == <<"stats">> \o id \o <<"type">>
        total_key == value_key \o <<"total">>
        set == (type_key :> Str(IncrementTypeTag(stat.variant)))
    IN  IF stat.variant \in {"IntTotal", "FloatTotal"}
        THEN [inc |-> (value_key :> UploadValue(stat)), set |-> set]
        ELSE [inc |-> (total_key :> UploadValue(stat)), set |-> set]

\* UploadStat::create_increment_operation: the update document
\* { "$inc": {...}, "$set": {...} }; keys are field paths
create_increment_operation(stat, id) ==
    LET value_key == <<"stats">> \o id \o <<"value">>
        type_key == <<"stats">> \o id \o <<"type">>
        total_key == value_key \o <<"total">>
        count_key == value_key \o <<"count">>
        set == (type_key :> Str(IncrementTypeTag(stat.variant)))
    IN  IF stat.variant \in {"IntTotal", "FloatTotal"}
        THEN [inc |-> (value_key :> UploadValue(stat)), set |-> set]
        ELSE [inc |-> (total_key :> UploadValue(stat)) @@ (count_key :> Int32(1)),
              set |-> set]

(* -------------------- the store's update operators --------------------- *)

\* $inc of two BSON numbers: int32 + int32 is int32, anything with a double
\* is a double
BsonAdd(a, b) ==
    [bt |-> IF "double" \in {a.bt, b.bt} THEN "double" ELSE "int32", n |-> a.n + b.n]

\* A document's stats field is kept as a map from field path (below "stats")
\* to the scalar stored there; an embedded document is a path that is a
\* proper prefix of a stored path.
IncFails(f, p) ==
    \/ \E q \in DOMAIN f : ProperPrefix(q, p)      \* cannot create a field in a scalar
    \/ \E q \in DOMAIN f : ProperPrefix(p, q)      \* $inc on an embedded document
    \/ p \in DOMAIN f /\ f[p].bt \notin Numeric    \* $inc on a non-numeric value

SetFails(f, p) == \E q \in DOMAIN f : ProperPrefix(q, p)

\* paths of an update are relative to the document; the model keeps only the
\* stats field, so the leading "stats" segment is dropped
StatsPaths(m) == [p \in {Tail(q) : q \in DOMAIN m} |-> m[<<"stats">> \o p]]

UpdateFails(f, op) ==
    LET inc == StatsPaths(op.inc)
        set == StatsPaths(op.set)
    IN  \/ \E p \in DOMAIN inc : IncFails(f, p)
        \/ \E p \in DOMAIN set : SetFails(f, p)

ApplyUpdate(f, op) ==
    LET inc == StatsPaths(op.inc)
        set == StatsPaths(op.set)
        kept == {q \in DOMAIN f : ~\E p \in DOMAIN set : ProperPrefix(p, q)}
        dom == kept \union DOMAIN inc \union DOMAIN set
    IN  [p \in dom |->
            IF p \in DOMAIN set THEN set[p]
            ELSE IF p \in DOMAIN inc
                 THEN IF p \in DOMAIN f THEN BsonAdd(f[p], inc[p]) ELSE inc[p]
                 ELSE f[p]]

(* -------------------------- model.rs: GameStat ------------------------- *)

\* serde tags of GameStat (tag = "type", content = "value", snake_case)
GameStatTags == {"int_total", "int_average", "float_total", "float_average"}

StatKeys(f) == {Head(p) : p \in DOMAIN f}

HasBt(f, p, bts) == p \in DOMAIN f /\ f[p].bt \in bts

TypeTag(f, k) ==
    IF HasBt(f, <<k, "type">>, {"string"}) THEN f[<<k, "type">>].s ELSE None

\* whether the entry stored under key k deserializes into a GameStat
GameStatDecodes(f, k) ==
    LET tag == TypeTag(f, k)
    IN  CASE tag = "int_total" -> HasBt(f, <<k, "value">>, {"int32"})
          [] tag = "float_total" -> HasBt(f, <<k, "value">>, Numeric)
          [] tag = "int_average" ->
                /\ HasBt(f, <<k, "value", "total">>, {"int32"})
                /\ HasBt(f, <<k, "value", "count">>, {"int32"})
          [] tag = "float_average" ->
                /\ HasBt(f, <<k, "value", "total">>, Numeric)
                /\ HasBt(f, <<k, "value", "count">>, {"int32"})
          [] OTHER -> FALSE

\* the GameStat stored under key k (when it decodes)
GameStat(f, k) ==
    LET tag == TypeTag(f, k)
    IN  IF tag \in {"int_total", "float_total"}
        THEN [variant |-> tag, total |-> f[<<k, "value">>].n, count |-> 1]
        ELSE [variant |-> tag, total |-> f[<<k, "value", "total">>].n,
              count |-> f[<<k, "value", "count">>].n]

\* impl Into<f64> for GameStat: the value as the fraction num/den
GameStatInto(stat) ==
    IF stat.variant \in {"int_total", "float_total"}
    THEN [num |-> stat.total, den |-> 1]
    ELSE [num |-> stat.total, den |-> stat.count]

\* whether a raw stats document deserializes into PlayerGameStats or
\* GlobalGameStats: every entry of stats must be a GameStat
Decodes(doc) == \A k \in StatKeys(doc.stats) : GameStatDecodes(doc.stats, k)

\* the name -> f64 map get_player_stats builds from a decoded document
DecodedStats(doc) ==
    [k \in StatKeys(doc.stats) |-> GameStatInto(GameStat(doc.stats, k))]


(* ------------------------------ state ---------------------------------- *)

VARIABLES
    variant,          \* the IncomingStat variant the game servers of this run upload
    player_profiles,  \* collection "players": sequence of profile documents
    player_stats,     \* collection "player-stats": set of raw documents
    global_stats,     \* collection "global-stats": set of raw documents
    corrupt_stats,    \* collection "corrupt_stats": set of raw documents
    next_id,          \* the next ObjectId the driver generates
    requests,         \* the requests the HTTP layer received, in arrival order
    responses,        \* the result each request was answered with
    mailbox,          \* the actor's mailbox: indices into requests
    worker,           \* the message the actor is handling and where it is in it
    faults            \* number of store round trips that failed so far

vars == <<variant, player_profiles, player_stats, global_stats, corrupt_stats,
          next_id, requests, responses, mailbox, worker, faults>>

store == <<player_profiles, player_stats, global_stats, corrupt_stats, next_id>>

Range(s) == {s[i] : i \in DOMAIN s}

(* ----------------------------- documents ------------------------------- *)

NoId == 0
NoDoc == [_id |-> NoId, uuid |-> None, namespace |-> None, stats |-> EmptyMap]

\* PlayerGameStats { uuid, namespace, stats: HashMap::new() } and
\* GlobalGameStats { namespace, stats: HashMap::new() } as inserted
NewStatsDocument(subj, namespace) ==
    [_id |-> NoId, uuid |-> IF subj = "global" THEN None ELSE subj,
     namespace |-> namespace, stats |-> EmptyMap]

\* insert_one: the driver generates an _id for a document that has none
WithId(doc) == IF doc._id = NoId THEN [doc EXCEPT !._id = next_id] ELSE doc
DuplicateKey(coll, doc) == \E c \in coll : c._id = WithId(doc)._id

\* the documents of a subject: the filter {uuid, namespace} on player-stats,
\* {namespace} on global-stats
StatsCollection(subj) == IF subj = "global" THEN global_stats ELSE player_stats
MatchingIn(players, global, subj, namespace) ==
    IF subj = "global"
    THEN {d \in global : d.namespace = namespace}
    ELSE {d \in players : d.uuid = subj /\ d.namespace = namespace}
Matching(subj, namespace) == MatchingIn(player_stats, global_stats, subj, namespace)

SetStatsCollection(subj, coll) ==
    IF subj = "global"
    THEN global_stats' = coll /\ UNCHANGED player_stats
    ELSE player_stats' = coll /\ UNCHANGED global_stats

(* ------------------------------ requests ------------------------------- *)

NoGlobal == [some |-> FALSE, stats |-> EmptyMap]
NoBundle == [namespace |-> None, players |-> EmptyMap, global |-> NoGlobal]

GetPlayerProfile(uuid) ==
    [kind |-> "GetPlayerProfile", uuid |-> uuid, username |-> None,
     namespace |-> None, bundle |-> NoBundle]
UpdatePlayerProfile(uuid, username) ==
    [kind |-> "UpdatePlayerProfile", uuid |-> uuid, username |-> username,
     namespace |-> None, bundle |-> NoBundle]
GetPlayerStats(uuid, namespace) ==
    [kind |-> "GetPlayerStats", uuid |-> uuid, username |-> None,
     namespace |-> namespace, bundle |-> NoBundle]
UploadStatsBundle(bundle) ==
    [kind |-> "UploadStatsBundle", uuid |-> None, username |-> None,
     namespace |-> None, bundle |-> bundle]

Some(stats) == [some |-> TRUE, stats |-> stats]
Stat(v, x) == [variant |-> v, value |-> x]

\* the statistics bundles game servers upload in a run where they use variant v
Bundles(v) ==
    {[namespace |-> ns, players |-> ("p1" :> m), global |-> NoGlobal] :
        ns \in Namespaces,
        m \in {EmptyMap} \union {(<<"kills">> :> Stat(v, x)) : x \in 1..MaxValue}
                \union {(<<"kills", "count">> :> Stat(v, 1))}}
    \union
    {[namespace |-> ns, players |-> EmptyMap,
      global |-> Some(<<"kills", "count">> :> Stat(v, 1))] : ns \in Namespaces}
    \union
    {[namespace |-> ns,
      players |-> ("p2" :> (<<"kills">> :> Stat(v, 1))),
      global |-> Some(<<"kills">> :> Stat(v, 1))] : ns \in Namespaces}

\* the players the profile and stats routes are called for
Clients == {"p1"}

(* ------------------------------ responses ------------------------------ *)

Pending == [status |-> "Pending", cause |-> None, username |-> None, stats |-> EmptyMap]
Ok == [status |-> "Ok", cause |-> None, username |-> None, stats |-> EmptyMap]
NotFound == [status |-> "NotFound", cause |-> None, username |-> None, stats |-> EmptyMap]
BadRequest == [status |-> "BadRequest", cause |-> None, username |-> None, stats |-> EmptyMap]
Err(cause) == [status |-> "Err", cause |-> cause, username |-> None, stats |-> EmptyMap]
OkProfile(profile) == [Ok EXCEPT !.username = profile.username]
\* a fetch that answers not-found when the player has no stats
OkStatsOrNotFound(stats) == IF stats = EmptyMap THEN NotFound ELSE [Ok EXCEPT !.stats = stats]

\* Ok(Some(final_stats))
OkStats(stats) == [Ok EXCEPT !.stats = stats]

(* ------------------------------ the actor ------------------------------ *)

Idle == [req |-> 0, pc |-> "idle", username |-> None, todo |-> {}, subj |-> None,
         names |-> {}, doc |-> NoDoc]

Init ==
    /\ variant \in Variants
    /\ player_profiles = <<>>
    /\ player_stats = {}
    /\ global_stats = {}
    /\ corrupt_stats = {}
    /\ next_id = 1
    /\ requests = <<>>
    /\ responses = <<>>
    /\ mailbox = <<>>
    /\ worker = Idle
    /\ faults = 0

\* a store round trip fails for a transport reason
FaultChoices == IF faults < MaxFaults THEN {FALSE, TRUE} ELSE {FALSE}

\* the handler returns: the request is answered and the actor is free again
Reply(resp) ==
    /\ responses' = [responses EXCEPT ![worker.req] = resp]
    /\ worker' = Idle

\* a failed round trip after which the actor handles no further message
AbortAndStop ==
    /\ faults' = faults + 1
    /\ responses' = [responses EXCEPT ![worker.req] = Err("transport")]
    /\ worker' = [worker EXCEPT !.pc = "stopped"]
    /\ UNCHANGED store

\* a failed round trip: `?` propagates the error out of the handler
Abort ==
    /\ faults' = faults + 1
    /\ Reply(Err("transport"))
    /\ UNCHANGED store

(* --------------------------- web.rs handlers --------------------------- *)

\* database.send(message): the message is appended to the actor's mailbox
Send(message) ==
    /\ Len(requests) < MaxRequests
    /\ requests' = Append(requests, message)
    /\ responses' = Append(responses, Pending)
    /\ mailbox' = Append(mailbox, Len(requests) + 1)
    /\ UNCHANGED <<variant, store, worker, faults>>

web_get_player_profile ==
    \E uuid \in Clients :
        /\ Send(GetPlayerProfile(uuid))

web_update_player_profile ==
    \E uuid \in Clients, username \in Usernames :
        /\ Send(UpdatePlayerProfile(uuid, username))

web_get_player_stats ==
    \E uuid \in Clients, game_mode \in Namespaces :
        /\ Send(GetPlayerStats(uuid, game_mode))

\* the loop over game_stats.stats: a two-level map player -> name -> stat
NameCheckFails(bundle) ==
    \E p \in DOMAIN bundle.players :
        \E name \in DOMAIN bundle.players[p] : Len(name) > 1

web_upload_game_stats ==
    \E bundle \in Bundles(variant) :
        IF NameCheckFails(bundle)
        THEN /\ Len(requests) < MaxRequests
             /\ requests' = Append(requests, UploadStatsBundle(bundle))
             /\ responses' = Append(responses, BadRequest)
             /\ UNCHANGED <<variant, store, mailbox, worker, faults>>
        ELSE Send(UploadStatsBundle(bundle))

(* ------------------------ the actor's message loop --------------------- *)

\* an actor that takes the next message while a handler is still running
ActorAlwaysReady == TRUE

\* the actor handles one message at a time (handle takes &mut self)
ActorIdle == worker.req = 0

\* a mailbox that hands out the newest message first
NewestMessage(mb) == mb[Len(mb)]

\* the mailbox is a FIFO channel: the actor takes the oldest message
NextMessage(mb) == Head(mb)

Subjects(bundle) ==
    DOMAIN bundle.players \union (IF bundle.global.some THEN {"global"} ELSE {})

\* the stats of a subject in the bundle of request r
SubjectStats(r, subj) ==
    IF subj = "global" THEN requests[r].bundle.global.stats
    ELSE requests[r].bundle.players[subj]

\* an ensure_player_stats_document that does not ensure the profile
EnsureWithoutProfile(subj) == "ensure_find"

\* where ensuring the document of a subject starts: ensure_player_stats_document
\* first calls update_player_profile(uuid, None), ensure_global_stats_document
\* starts with the lookup
EnsureEntry(subj) == IF subj = "global" THEN "ensure_find" ELSE "profile_find"

\* the control flow of upload_stats_bundle between two store round trips,
\* from the worker state w: the next increment of the current subject, else
\* the next subject (bundle.stats.players in the order the HashMap yields
\* them, then bundle.stats.global), else Ok(())
upload_stats_bundle(w) ==
    IF w.names # {}
    THEN /\ worker' = [w EXCEPT !.pc = "increment"]
         /\ UNCHANGED responses
    ELSE IF w.todo = {}
    THEN /\ responses' = [responses EXCEPT ![w.req] = Ok]
         /\ worker' = Idle
    ELSE /\ \E subj \in w.todo :
            /\ subj = "global" => w.todo = {"global"}
            /\ worker' = [w EXCEPT
                  !.subj = subj, !.todo = @ \ {subj},
                  !.names = DOMAIN SubjectStats(w.req, subj),
                  !.pc = EnsureEntry(subj)]
         /\ UNCHANGED responses

\* handlers whose fetch of a profile creates the profile it does not find
StartHandlerEnsuring(r) ==
    LET m == requests[r]
    IN  CASE m.kind = "GetPlayerProfile" ->
                [Idle EXCEPT !.req = r, !.pc = "profile_find", !.subj = m.uuid]
          [] m.kind = "UpdatePlayerProfile" ->
                [Idle EXCEPT !.req = r, !.pc = "profile_find", !.username = m.username,
                             !.subj = m.uuid]
          [] m.kind = "GetPlayerStats" ->
                [Idle EXCEPT !.req = r, !.pc = "stats_profile"]
          [] m.kind = "UploadStatsBundle" ->
                [Idle EXCEPT !.req = r, !.pc = "upload", !.todo = Subjects(m.bundle)]

\* the handle functions of the four messages: where each handler starts
StartHandler(r) ==
    LET m == requests[r]
    IN  CASE m.kind = "GetPlayerProfile" ->
                [Idle EXCEPT !.req = r, !.pc = "get_player_profile"]
          [] m.kind = "UpdatePlayerProfile" ->
                [Idle EXCEPT !.req = r, !.pc = "profile_find", !.username = m.username,
                             !.subj = m.uuid]
          [] m.kind = "GetPlayerStats" ->
                [Idle EXCEPT !.req = r, !.pc = "stats_profile"]
          [] m.kind = "UploadStatsBundle" ->
                [Idle EXCEPT !.req = r, !.pc = "upload", !.todo = Subjects(m.bundle)]

actor_receive ==
    /\ ActorIdle
    /\ mailbox # <<>>
    /\ LET w == StartHandler(NextMessage(mailbox))
       IN  IF w.pc = "upload"
           THEN upload_stats_bundle(w)
           ELSE worker' = w /\ UNCHANGED responses
    /\ mailbox' = Tail(mailbox)
    /\ UNCHANGED <<variant, store, requests, faults>>

(* --------------------------- profile registry -------------------------- *)

NoProfile == [uuid |-> None, username |-> None]

\* a lookup that never finds a profile
FindNoProfile(uuid) == NoProfile

\* get_player_profile: find with limit 1
FindProfile(uuid) ==
    IF \E i \in DOMAIN player_profiles : player_profiles[i].uuid = uuid
    THEN player_profiles[CHOOSE i \in DOMAIN player_profiles :
            /\ player_profiles[i].uuid = uuid
            /\ \A j \in 1..(i - 1) : player_profiles[j].uuid # uuid]
    ELSE NoProfile

\* Handler<GetPlayerProfile>
get_player_profile ==
    /\ worker.pc = "get_player_profile"
    /\ \E fail \in FaultChoices :
        IF fail THEN Abort
        ELSE /\ Reply(LET profile == FindProfile(requests[worker.req].uuid)
                      IN  IF profile = NoProfile THEN NotFound ELSE OkProfile(profile))
             /\ UNCHANGED <<store, faults>>
    /\ UNCHANGED <<variant, requests, mailbox>>

\* update_player_profile returns Ok: Handler<UpdatePlayerProfile> answers,
\* ensure_player_stats_document goes on to look the stats document up
ProfileReturns ==
    IF requests[worker.req].kind = "UpdatePlayerProfile"
    THEN Reply(Ok)
    ELSE /\ worker' = [worker EXCEPT !.pc = "ensure_find"]
         /\ UNCHANGED responses

\* an update_player_profile that writes every supplied username
UsernameSupplied(username, profile) == username # None

\* whether update_player_profile writes the supplied username
UsernameChanges(username, profile) ==
    /\ username # None
    /\ profile.username # None
    /\ username # profile.username

\* update_player_profile: the get_player_profile lookup and the match on it
update_player_profile_find ==
    /\ worker.pc = "profile_find"
    /\ \E fail \in FaultChoices :
        IF fail THEN Abort
        ELSE LET profile == FindProfile(worker.subj)
             IN  /\ IF profile = NoProfile
                    THEN /\ worker' = [worker EXCEPT !.pc = "profile_insert"]
                         /\ UNCHANGED responses
                    ELSE IF UsernameChanges(worker.username, profile)
                         THEN /\ worker' = [worker EXCEPT !.pc = "profile_update"]
                              /\ UNCHANGED responses
                         ELSE ProfileReturns
                 /\ UNCHANGED <<store, faults>>
    /\ UNCHANGED <<variant, requests, mailbox>>

\* update_one({uuid}, {$set: {username}}) on the first matching profile
SetUsername(uuid, username) ==
    [i \in DOMAIN player_profiles |->
        IF /\ player_profiles[i].uuid = uuid
           /\ \A j \in 1..(i - 1) : player_profiles[j].uuid # uuid
        THEN [player_profiles[i] EXCEPT !.username = username]
        ELSE player_profiles[i]]

update_player_profile_update ==
    /\ worker.pc = "profile_update"
    /\ \E fail \in FaultChoices :
        IF fail THEN Abort
        ELSE /\ player_profiles' = SetUsername(worker.subj, worker.username)
             /\ ProfileReturns
             /\ UNCHANGED <<player_stats, global_stats, corrupt_stats, next_id, faults>>
    /\ UNCHANGED <<variant, requests, mailbox>>

update_player_profile_insert ==
    /\ worker.pc = "profile_insert"
    /\ \E fail \in FaultChoices :
        IF fail THEN Abort
        ELSE /\ player_profiles' = Append(player_profiles,
                    [uuid |-> worker.subj, username |-> worker.username])
             /\ ProfileReturns
             /\ UNCHANGED <<player_stats, global_stats, corrupt_stats, next_id, faults>>
    /\ UNCHANGED <<variant, requests, mailbox>>

(* ------------------------------ get_player_stats ----------------------- *)

\* the filter of get_player_stats: {uuid, namespace} or {uuid}
StatsOf(uuid, namespace) ==
    IF namespace # None
    THEN {d \in player_stats : d.uuid = uuid /\ d.namespace = namespace}
    ELSE {d \in player_stats : d.uuid = uuid}

\* final_stats: namespace -> name -> f64, one entry per document of the cursor
FinalStats(docs) ==
    [ns \in {d.namespace : d \in docs} |->
        DecodedStats(CHOOSE d \in docs : d.namespace = ns)]

\* get_player_stats: the profile lookup that decides NotFound
get_player_stats_profile ==
    /\ worker.pc = "stats_profile"
    /\ \E fail \in FaultChoices :
        IF fail THEN Abort
        ELSE /\ IF FindProfile(requests[worker.req].uuid) = NoProfile
                THEN Reply(NotFound)
                ELSE /\ worker' = [worker EXCEPT !.pc = "stats_find"]
                     /\ UNCHANGED responses
             /\ UNCHANGED <<store, faults>>
    /\ UNCHANGED <<variant, requests, mailbox>>

\* get_player_stats: the find and the loop over the cursor; try_next()? ends
\* the request with the error of the first document that does not decode
get_player_stats_find ==
    /\ worker.pc = "stats_find"
    /\ \E fail \in FaultChoices :
        IF fail THEN Abort
        ELSE LET docs == StatsOf(requests[worker.req].uuid, requests[worker.req].namespace)
             IN  /\ IF \E d \in docs : ~Decodes(d)
                    THEN Reply(Err("decode"))
                    ELSE Reply(OkStats(FinalStats(docs)))
                 /\ UNCHANGED <<store, faults>>
    /\ UNCHANGED <<variant, requests, mailbox>>

(* ------------------------------ upload_stats_bundle -------------------- *)

WorkerNamespace == requests[worker.req].bundle.namespace

\* ensure_*_stats_document returns Ok: the increments of the subject follow
EnsureReturns == upload_stats_bundle([worker EXCEPT !.doc = NoDoc])

\* needs_new_document that does not look at the lookup's result
always_new_document(stats) == TRUE

\* needs_new_document that never asks for an insert
never_new_document(stats) == FALSE

\* needs_new_document for Ok(stats): stats.is_none()
needs_new_document(stats) == stats = {}

\* a delete_one that removes nothing
DeleteNone(coll, id) == coll

\* delete_one({"_id": id})
DeleteOne(coll, id) == {d \in coll : d._id # id}

\* the outcomes of find(..).await? followed by try_next().await
LookupOutcomes == IF faults < MaxFaults THEN {"ok", "find_fails", "next_fails"} ELSE {"ok"}

\* ensure_player_stats_document / ensure_global_stats_document: the lookup
\* and the match on its result
ensure_stats_document_find ==
    /\ worker.pc = "ensure_find"
    /\ \E outcome \in LookupOutcomes :
        CASE outcome = "find_fails" -> Abort
          [] outcome = "next_fails" ->
                /\ faults' = faults + 1
                /\ worker' = [worker EXCEPT !.pc = "broken_find"]
                /\ UNCHANGED <<store, responses>>
          [] outcome = "ok" ->
                /\ IF Matching(worker.subj, WorkerNamespace) = {}
                   THEN IF needs_new_document({})
                        THEN /\ worker' = [worker EXCEPT !.pc = "ensure_insert"]
                             /\ UNCHANGED responses
                        ELSE EnsureReturns
                   ELSE \E d \in Matching(worker.subj, WorkerNamespace) :
                            IF Decodes(d)
                            THEN IF needs_new_document({d})
                                 THEN /\ worker' = [worker EXCEPT !.pc = "ensure_insert"]
                                      /\ UNCHANGED responses
                                 ELSE EnsureReturns
                            ELSE /\ worker' = [worker EXCEPT !.pc = "broken_find"]
                                 /\ UNCHANGED responses
                /\ UNCHANGED <<store, faults>>
    /\ UNCHANGED <<variant, requests, mailbox>>

\* a missing document that ends the ensure call without an insert
MissingDocumentSkipsInsert == [worker EXCEPT !.pc = "increment"]

\* the else branch of `if let Some(doc) = doc`: a warning is logged, the
\* function returns Ok(()) and the caller sets needs_new_document = true
MissingCorruptDocument == [worker EXCEPT !.pc = "ensure_insert"]

\* handle_broken_*_stats_document: find_one of the raw document
handle_broken_stats_document_find ==
    /\ worker.pc = "broken_find"
    /\ \E fail \in FaultChoices :
        IF fail THEN Abort
        ELSE /\ IF Matching(worker.subj, WorkerNamespace) = {}
                THEN worker' = MissingCorruptDocument
                ELSE \E d \in Matching(worker.subj, WorkerNamespace) :
                        worker' = [worker EXCEPT !.pc = "broken_insert", !.doc = d]
             /\ UNCHANGED <<store, responses, faults>>
    /\ UNCHANGED <<variant, requests, mailbox>>

\* the document handle_broken_document hands to corrupt_stats().insert_one
QuarantinedDocument(document) ==
    LET corrupt_document == [document EXCEPT !._id = NoId]
    IN  document

\* a quarantine insert whose failure is not propagated: the caller goes on
\* to delete the original
handle_broken_document_unchecked ==
    /\ worker.pc = "broken_insert"
    /\ \E fail \in FaultChoices :
        IF fail
        THEN /\ faults' = faults + 1
             /\ worker' = [worker EXCEPT !.pc = "broken_delete"]
             /\ UNCHANGED <<store, responses>>
        ELSE /\ corrupt_stats' = corrupt_stats \union {WithId(QuarantinedDocument(worker.doc))}
             /\ worker' = [worker EXCEPT !.pc = "broken_delete"]
             /\ UNCHANGED <<player_profiles, player_stats, global_stats, next_id,
                            responses, faults>>
    /\ UNCHANGED <<variant, requests, mailbox>>

\* handle_broken_document: the insert into corrupt_stats
handle_broken_document ==
    /\ worker.pc = "broken_insert"
    /\ \E fail \in FaultChoices :
        IF fail THEN Abort
        ELSE LET inserted == QuarantinedDocument(worker.doc)
             IN  IF DuplicateKey(corrupt_stats, inserted)
                 THEN /\ Reply(Err("duplicate_key"))
                      /\ UNCHANGED <<store, faults>>
                 ELSE /\ corrupt_stats' = corrupt_stats \union {WithId(inserted)}
                      /\ next_id' = IF inserted._id = NoId THEN next_id + 1 ELSE next_id
                      /\ worker' = [worker EXCEPT !.pc = "broken_delete"]
                      /\ UNCHANGED <<player_profiles, player_stats, global_stats,
                                     responses, faults>>
    /\ UNCHANGED <<variant, requests, mailbox>>

\* handle_broken_*_stats_document: delete_one({_id}) of the original
handle_broken_stats_document_delete ==
    /\ worker.pc = "broken_delete"
    /\ \E fail \in FaultChoices :
        IF fail THEN Abort
        ELSE /\ SetStatsCollection(worker.subj,
                    DeleteOne(StatsCollection(worker.subj), worker.doc._id))
             /\ worker' = [worker EXCEPT !.pc = "ensure_insert"]
             /\ UNCHANGED <<player_profiles, corrupt_stats, next_id, responses, faults>>
    /\ UNCHANGED <<variant, requests, mailbox>>

\* ensure_*_stats_document: needs_new_document, the insert of an empty document
ensure_stats_document_insert ==
    /\ worker.pc = "ensure_insert"
    /\ \E fail \in FaultChoices :
        IF fail THEN Abort
        ELSE /\ SetStatsCollection(worker.subj,
                    StatsCollection(worker.subj)
                        \union {WithId(NewStatsDocument(worker.subj, WorkerNamespace))})
             /\ next_id' = next_id + 1
             /\ EnsureReturns
             /\ UNCHANGED <<player_profiles, corrupt_stats, faults>>
    /\ UNCHANGED <<variant, requests, mailbox>>

\* upload_stats_bundle: update_one(filter, stat.create_increment_operation(name))
\* for the stats of the subject, in the order the HashMap yields them
upload_stats_bundle_increment ==
    /\ worker.pc = "increment"
    /\ \E stat_name \in worker.names, fail \in FaultChoices :
        IF fail THEN Abort
        ELSE LET stat == SubjectStats(worker.req, worker.subj)[stat_name]
                 op == create_increment_operation(stat, stat_name)
                 docs == Matching(worker.subj, WorkerNamespace)
                 next == [worker EXCEPT !.names = @ \ {stat_name}]
             IN  IF docs = {}
                 THEN /\ upload_stats_bundle(next)
                      /\ UNCHANGED <<store, faults>>
                 ELSE \E d \in docs :
                      IF UpdateFails(d.stats, op)
                      THEN /\ Reply(Err("write_error"))
                           /\ UNCHANGED <<store, faults>>
                      ELSE /\ SetStatsCollection(worker.subj,
                                  (StatsCollection(worker.subj) \ {d})
                                      \union {[d EXCEPT !.stats = ApplyUpdate(@, op)]})
                           /\ upload_stats_bundle(next)
                           /\ UNCHANGED <<player_profiles, corrupt_stats, next_id, faults>>
    /\ UNCHANGED <<variant, requests, mailbox>>

(* --------------------------- specification ----------------------------- *)

Next ==
    \/ web_get_player_profile
    \/ web_update_player_profile
    \/ web_get_player_stats
    \/ web_upload_game_stats
    \/ actor_receive
    \/ get_player_profile
    \/ update_player_profile_find
    \/ update_player_profile_update
    \/ update_player_profile_insert
    \/ get_player_stats_profile
    \/ get_player_stats_find
    \/ ensure_stats_document_find
    \/ handle_broken_stats_document_find
    \/ handle_broken_document
    \/ handle_broken_stats_document_delete
    \/ ensure_stats_document_insert
    \/ upload_stats_bundle_increment

Spec == Init /\ [][Next]_vars

\* the steps of the actor's task: taking the next message from the mailbox
\* and the store round trips of the running handler
ActorStep ==
    \/ actor_receive
    \/ get_player_profile
    \/ update_player_profile_find
    \/ update_player_profile_update
    \/ update_player_profile_insert
    \/ get_player_stats_profile
    \/ get_player_stats_find
    \/ ensure_stats_document_find
    \/ handle_broken_stats_document_find
    \/ handle_broken_document
    \/ handle_broken_stats_document_delete
    \/ ensure_stats_document_insert
    \/ upload_stats_bundle_increment

\* the actor is spawned on the runtime and keeps being polled, and every
\* store round trip returns, with a result or with an error
LiveSpec == Init /\ [][Next]_vars /\ WF_vars(ActorStep)

(* ------------------------ vocabulary of the claims --------------------- *)

AllSubjects == Players \union {"global"}
ValidNames == {name \in StatNames : Len(name) = 1}
RollingAverages == {"IntRollingAverage", "FloatRollingAverage"}
Totals == {"IntTotal", "FloatTotal"}

IsUpload(i) == requests[i].kind = "UploadStatsBundle"

\* upload i reached the actor and carries stats for the subject
Touches(i, subj, ns) ==
    /\ IsUpload(i)
    /\ responses[i].status # "BadRequest"
    /\ requests[i].bundle.namespace = ns
    /\ subj \in Subjects(requests[i].bundle)

\* upload i carries a stat called name for the subject
Carries(i, subj, ns, name) ==
    Touches(i, subj, ns) /\ name \in DOMAIN SubjectStats(i, subj)

\* every upload that reached the actor names its stats for the subject
\* without '.'
OnlyValidNames(subj, ns) ==
    \A i \in DOMAIN requests :
        Touches(i, subj, ns) => DOMAIN SubjectStats(i, subj) \subseteq ValidNames

\* no upload for the subject is being handled
Quiescent(subj, ns) == worker.req # 0 => ~Touches(worker.req, subj, ns)

\* the amounts of the uploads 1..n for (subject, name) that were answered Ok
RECURSIVE SumUploaded(_, _, _, _)
SumUploaded(n, subj, ns, name) ==
    IF n = 0 THEN 0
    ELSE SumUploaded(n - 1, subj, ns, name)
         + (IF Carries(n, subj, ns, name) /\ responses[n].status = "Ok"
            THEN SubjectStats(n, subj)[name].value ELSE 0)

\* the BSON number a stat of the run's variant stores for the amount n
StoredNumber(n) == IF variant \in {"IntTotal", "IntRollingAverage"} THEN Int32(n) ELSE Double(n)

(* -------------------------------- claims ------------------------------- *)

\* C1: when exactly two rolling-average samples for the same valid name were
\* uploaded for a subject that had no document, and both uploads are answered
\* Ok with no store failure, the subject has one document whose stat has
\* count = 2 and total = the sum of the samples, and it decodes to their mean.
C1_RollingAverageOfTwoSamples ==
    \A subj \in AllSubjects, ns \in Namespaces, name \in ValidNames :
      \A i, j \in DOMAIN requests :
        ( /\ i < j
          /\ faults = 0
          /\ variant \in RollingAverages
          /\ {k \in DOMAIN requests : Touches(k, subj, ns)} = {i, j}
          /\ Carries(i, subj, ns, name) /\ Carries(j, subj, ns, name)
          /\ responses[i].status = "Ok" /\ responses[j].status = "Ok" )
        =>
        LET a == SubjectStats(i, subj)[name].value
            b == SubjectStats(j, subj)[name].value
            k == name[1]
        IN  /\ Cardinality(Matching(subj, ns)) = 1
            /\ \A d \in Matching(subj, ns) :
                /\ HasBt(d.stats, <<k, "value", "count">>, {"int32"})
                /\ d.stats[<<k, "value", "count">>] = Int32(2)
                /\ d.stats[<<k, "value", "total">>] = StoredNumber(a + b)
                /\ Decodes(d)
                /\ 2 * DecodedStats(d)[k].num = (a + b) * DecodedStats(d)[k].den

\* C2: in a run of IntTotal (or FloatTotal) uploads with valid names and no
\* store failure, the stored total of a name is the sum of the amounts
\* uploaded for it, and a fetch of the player's stats answers with the sum of
\* the amounts uploaded before it.
C2_TotalsAccumulate ==
    (variant \in Totals /\ faults = 0) =>
      /\ \A subj \in AllSubjects, ns \in Namespaces, name \in ValidNames :
            ( /\ Quiescent(subj, ns)
              /\ OnlyValidNames(subj, ns)
              /\ SumUploaded(Len(requests), subj, ns, name) > 0 )
            =>
            /\ Cardinality(Matching(subj, ns)) = 1
            /\ \A d \in Matching(subj, ns) :
                /\ <<name[1], "value">> \in DOMAIN d.stats
                /\ d.stats[<<name[1], "value">>]
                      = StoredNumber(SumUploaded(Len(requests), subj, ns, name))
      /\ \A j \in DOMAIN requests, name \in ValidNames :
            LET p == requests[j].uuid
                ns == requests[j].namespace
                sum == SumUploaded(j - 1, p, ns, name)
                got == responses[j].stats
            IN  ( /\ requests[j].kind = "GetPlayerStats"
                  /\ responses[j].status = "Ok"
                  /\ OnlyValidNames(p, ns)
                  /\ sum > 0 )
                =>
                /\ ns \in DOMAIN got
                /\ name[1] \in DOMAIN got[ns]
                /\ got[ns][name[1]] = [num |-> sum, den |-> 1]

\* witness of C2: two amounts were uploaded for a player and a later fetch
\* was answered with stats
C2_Witness ==
    /\ variant \in Totals
    /\ faults = 0
    /\ \E i, j, k \in DOMAIN requests :
        /\ i < j /\ j < k
        /\ Carries(i, "p1", "ffa", <<"kills">>) /\ responses[i].status = "Ok"
        /\ Carries(j, "p1", "ffa", <<"kills">>) /\ responses[j].status = "Ok"
        /\ SubjectStats(i, "p1")[<<"kills">>].value # SubjectStats(j, "p1")[<<"kills">>].value
        /\ requests[k].kind = "GetPlayerStats" /\ responses[k].status = "Ok"
        /\ "ffa" \in DOMAIN responses[k].stats

\* the steps of ensure_player_stats_document / ensure_global_stats_document
\* after the profile was ensured
EnsurePcs == {"ensure_find", "broken_find", "broken_insert", "broken_delete", "ensure_insert"}

\* this step is the one in which ensure_*_stats_document returns Ok
EnsureCompletes ==
    /\ worker.pc \in {"ensure_find", "ensure_insert"}
    /\ worker'.pc \notin EnsurePcs
    /\ responses'[worker.req].status # "Err"

SameContent(c, d) == c.uuid = d.uuid /\ c.namespace = d.namespace /\ c.stats = d.stats

\* C3: when ensure_*_stats_document meets a document that does not decode,
\* the quarantine store gains exactly one record, holding the raw content of
\* that document, and when the call returns Ok the subject has exactly one
\* document, with empty stats.
C3_QuarantineThenFreshDocument ==
    [][ /\ ( /\ worker.pc = "broken_insert"
             /\ ~Decodes(worker.doc)
             /\ worker'.pc = "broken_delete" )
           => \E c \in corrupt_stats' :
                /\ c \notin corrupt_stats
                /\ corrupt_stats' = corrupt_stats \union {c}
                /\ SameContent(c, worker.doc)
        /\ worker.pc \in EnsurePcs \ {"broken_insert"} => corrupt_stats' = corrupt_stats
        /\ ( /\ worker.pc = "ensure_insert"
             /\ worker.doc # NoDoc
             /\ ~Decodes(worker.doc)
             /\ EnsureCompletes )
           => LET docs == MatchingIn(player_stats', global_stats', worker.subj, WorkerNamespace)
              IN  /\ Cardinality(docs) = 1
                  /\ \A d \in docs : d.stats = EmptyMap
                  /\ Cardinality({c \in corrupt_stats' : SameContent(c, worker.doc)}) >= 1
      ]_vars

\* witness of C3: an undecodable document sits in quarantine and its subject
\* has exactly one document, which is empty
C3_Witness ==
    \E c \in corrupt_stats :
        /\ ~Decodes(c)
        /\ LET docs == Matching(IF c.uuid = None THEN "global" ELSE c.uuid, c.namespace)
           IN  /\ Cardinality(docs) = 1
               /\ \A d \in docs : d.stats = EmptyMap /\ d._id # c._id

\* C4: the record written to quarantine has an identity of its own (the _id
\* of the raw document is removed), and no quarantine insert fails on a
\* duplicate identity.
C4_QuarantineRecordHasOwnIdentity ==
    /\ \A c \in corrupt_stats : \A d \in player_stats \union global_stats : c._id # d._id
    /\ \A i \in DOMAIN responses : responses[i].cause # "duplicate_key"

IsUpdate(i) == requests[i].kind = "UpdatePlayerProfile"

\* request i is the last username update of its player the actor has taken up
LastUpdate(i) ==
    /\ IsUpdate(i)
    /\ responses[i].status = "Ok"
    /\ \A j \in DOMAIN requests :
        (j > i /\ IsUpdate(j) /\ requests[j].uuid = requests[i].uuid)
            => (responses[j].status = "Pending" /\ worker.req # j)

\* C5: after update_player_profile with a supplied username is answered Ok,
\* the stored username is the supplied one, and a following fetch of the
\* profile answers with it.
C5_UpdateStoresUsername ==
    /\ \A i \in DOMAIN requests :
        LastUpdate(i) => FindProfile(requests[i].uuid).username = requests[i].username
    /\ \A i, k \in DOMAIN requests :
        ( /\ i < k
          /\ IsUpdate(i) /\ responses[i].status = "Ok"
          /\ requests[k].kind = "GetPlayerProfile"
          /\ requests[k].uuid = requests[i].uuid
          /\ responses[k].status = "Ok"
          /\ \A j \in (i + 1)..(k - 1) : ~IsUpdate(j) )
        => responses[k].username = requests[i].username

\* C6: no request ends in an error because a stats document does not decode:
\* a fetch of player stats fails only when a store round trip fails.
C6_CorruptionNeverSurfaces ==
    \A i \in DOMAIN requests :
        (requests[i].kind = "GetPlayerStats" /\ responses[i].status = "Err")
            => responses[i].cause = "transport"

\* the requests the actor has taken from the mailbox and not yet answered
InService ==
    {i \in DOMAIN requests : responses[i].status = "Pending" /\ i \notin Range(mailbox)}

\* C7: at most one request is in service: the only request taken from the
\* mailbox and not yet answered is the one the worker is handling.
C7_OneRequestInService ==
    /\ Cardinality(InService) <= 1
    /\ InService = IF worker.req = 0 THEN {} ELSE {worker.req}

\* witness of C7: a request is half way through its store operations while
\* another one waits in the mailbox
C7_Witness ==
    /\ worker.pc \in {"ensure_insert", "increment", "profile_update", "stats_find"}
    /\ mailbox # <<>>

\* C8: requests are served in the order they were enqueued: whenever a
\* request is still unanswered, every request enqueued after it is still in
\* the mailbox; a fetch enqueued after a username update that was answered Ok
\* finds the player, and a profile fetch answers with the username of the
\* last update enqueued before it (for a player no upload has created a
\* profile for).
C8_ServedInArrivalOrder ==
    /\ \A i, j \in DOMAIN requests :
        (j < i /\ responses[j].status = "Pending")
            => (i \in Range(mailbox) \/ responses[i].status = "BadRequest")
    /\ \A i, j \in DOMAIN requests :
        ( /\ j < i
          /\ IsUpdate(j) /\ responses[j].status = "Ok"
          /\ requests[i].kind \in {"GetPlayerStats", "GetPlayerProfile"}
          /\ requests[i].uuid = requests[j].uuid )
        => responses[i].status # "NotFound"
    /\ \A i, j \in DOMAIN requests :
        ( /\ j < i
          /\ IsUpdate(j) /\ responses[j].status = "Ok"
          /\ requests[i].kind = "GetPlayerProfile"
          /\ requests[i].uuid = requests[j].uuid
          /\ responses[i].status = "Ok"
          /\ \A k \in (j + 1)..(i - 1) : ~IsUpdate(k)
          /\ \A k \in 1..(i - 1) : ~(IsUpload(k) /\ requests[i].uuid \in Subjects(requests[k].bundle)) )
        => responses[i].username = requests[j].username

\* witness of C8: a fetch enqueued after a username update was answered
C8_Witness ==
    \E i, j \in DOMAIN requests :
        /\ j < i
        /\ IsUpdate(j) /\ responses[j].status = "Ok"
        /\ requests[i].kind = "GetPlayerStats"
        /\ requests[i].uuid = requests[j].uuid
        /\ responses[i].status = "Ok"

\* the bundle has a stat name with '.', in the players or the global section
HasDottedName(bundle) ==
    \E subj \in Subjects(bundle) :
        \E name \in DOMAIN (IF subj = "global" THEN bundle.global.stats
                                                ELSE bundle.players[subj]) : Len(name) > 1

\* C9: an upload whose bundle has a stat name with '.' anywhere is never
\* carried out: it is not answered Ok.
C9_DottedBundleRejected ==
    \A i \in DOMAIN requests :
        (IsUpload(i) /\ HasDottedName(requests[i].bundle)) => responses[i].status # "Ok"

\* the state a first ensure_*_stats_document call leaves for the subject
Ensured(subj, ns) ==
    /\ Cardinality(Matching(subj, ns)) = 1
    /\ \A d \in Matching(subj, ns) : Decodes(d)
    /\ subj # "global" => FindProfile(subj) # NoProfile

\* C10: when ensure_*_stats_document returns Ok the subject has exactly one
\* document and it decodes; a call that starts from that state changes
\* nothing in the store and returns Ok (unless a round trip fails).
C10_EnsureIdempotent ==
    [][ /\ EnsureCompletes
           => LET docs == MatchingIn(player_stats', global_stats', worker.subj, WorkerNamespace)
              IN  Cardinality(docs) = 1 /\ \A d \in docs : Decodes(d)
        /\ ( /\ worker.req # 0
             /\ IsUpload(worker.req)
             /\ worker.pc \in {"profile_find", "ensure_find"}
             /\ Ensured(worker.subj, WorkerNamespace)
             /\ worker' # worker
             /\ faults' = faults )
           => /\ store' = store
              /\ responses'[worker.req].status # "Err"
              /\ worker'.pc \notin EnsurePcs \ {"ensure_find"}
              /\ worker.pc = "ensure_find" => worker'.pc # "ensure_find"
      ]_vars

\* witness of C10: two uploads in a row carried no stats for p1, so the
\* second ensure call followed the first directly, and p1 has one document
C10_Witness ==
    \E i \in DOMAIN requests :
        /\ i + 1 \in DOMAIN requests
        /\ \A k \in {i, i + 1} :
            /\ Touches(k, "p1", "ffa")
            /\ SubjectStats(k, "p1") = EmptyMap
            /\ responses[k].status = "Ok"
        /\ Cardinality(Matching("p1", "ffa")) = 1

\* C11: within upload_stats_bundle, the worker turns to the increments of a
\* subject only on the step on which the ensure call for that subject
\* returns, and whenever an increment is about to be issued the stats
\* document of its subject exists.
C11_EnsureBeforeIncrement ==
    [][ /\ worker.pc = "increment" => Matching(worker.subj, WorkerNamespace) # {}
        /\ worker'.pc = "increment"
           => MatchingIn(player_stats', global_stats', worker'.subj,
                         requests'[worker'.req].bundle.namespace) # {}
        /\ (worker'.pc = "increment" /\ worker.pc # "increment")
           => /\ worker.pc \in {"ensure_find", "ensure_insert"}
              /\ worker'.subj = worker.subj
              /\ worker'.req = worker.req
        /\ (worker'.pc = "increment" /\ worker.pc = "increment")
           => worker'.subj = worker.subj /\ worker'.req = worker.req
      ]_vars

\* witness of C11: the increments of the second subject of a bundle are about
\* to be issued, its document is in place
C11_Witness ==
    /\ worker.pc = "increment"
    /\ worker.subj = "global"
    /\ DOMAIN requests[worker.req].bundle.players # {}
    /\ Matching("global", WorkerNamespace) # {}

\* C12: every player that has a stats document has a profile record, also
\* after an upload was cut short by a failing store round trip.
C12_StatsImplyProfile ==
    \A d \in player_stats : FindProfile(d.uuid) # NoProfile

\* witness of C12: a player has a stats document and the upload that
\* created it ended with an error
C12_Witness ==
    \E d \in player_stats :
        /\ FindProfile(d.uuid) # NoProfile
        /\ \E i \in DOMAIN requests :
            /\ Touches(i, d.uuid, d.namespace)
            /\ responses[i].status = "Err"
            /\ \A j \in DOMAIN requests : j # i => ~Touches(j, d.uuid, d.namespace)

\* C13: update_player_profile on an existing profile, with no username
\* supplied or with the stored one, issues no write: the call returns on the
\* lookup step and the store is unchanged.
C13_SameUsernameNoWrite ==
    [][ ( /\ worker.pc = "profile_find"
          /\ FindProfile(worker.subj) # NoProfile
          /\ worker.username \in {None, FindProfile(worker.subj).username}
          /\ worker' # worker
          /\ faults' = faults )
        => /\ store' = store
           /\ worker'.pc \notin {"profile_update", "profile_insert"}
           /\ responses'[worker.req].status # "Err"
      ]_vars

\* witness of C13: the same username was set twice for a player, both
\* updates were answered Ok
C13_Witness ==
    \E i, j \in DOMAIN requests :
        /\ i < j
        /\ IsUpdate(i) /\ IsUpdate(j)
        /\ requests[i].uuid = requests[j].uuid
        /\ requests[i].username = requests[j].username
        /\ responses[i].status = "Ok" /\ responses[j].status = "Ok"
        /\ FindProfile(requests[i].uuid).username = requests[i].username

\* the player and the namespace of the fetch the worker is handling
FetchUuid == requests[worker.req].uuid
FetchNamespace == requests[worker.req].namespace

\* C14: a fetch of player stats for a player without profile is answered
\* NotFound; for a player with a profile and no stats document in the
\* namespace it is answered Ok with an empty mapping.
C14_UnknownPlayerNotFound ==
    [][ /\ ( /\ worker.pc = "stats_profile"
             /\ worker' # worker
             /\ faults' = faults )
           => IF FindProfile(FetchUuid) = NoProfile
              THEN responses'[worker.req].status = "NotFound"
              ELSE responses'[worker.req].status = "Pending" /\ worker'.pc = "stats_find"
        /\ worker.pc = "stats_find" => FindProfile(FetchUuid) # NoProfile
        /\ ( /\ worker.pc = "stats_find"
             /\ worker' # worker
             /\ faults' = faults
             /\ StatsOf(FetchUuid, FetchNamespace) = {} )
           => /\ responses'[worker.req].status = "Ok"
              /\ responses'[worker.req].stats = EmptyMap
      ]_vars

\* witness of C14: one fetch was answered NotFound and a later one, after
\* the profile was created, Ok with an empty mapping
C14_Witness ==
    \E i, j \in DOMAIN requests :
        /\ i < j
        /\ requests[i].kind = "GetPlayerStats" /\ responses[i].status = "NotFound"
        /\ requests[j].kind = "GetPlayerStats" /\ requests[j].uuid = requests[i].uuid
        /\ responses[j].status = "Ok" /\ responses[j].stats = EmptyMap
        /\ player_stats = {}

\* C15: a store failure aborts the request it happens in and its caller gets
\* an error: once a round trip has failed and every request is answered, one
\* of the requests was answered with an error.
C15_StoreFailureAnsweredWithError ==
    ( /\ faults > 0
      /\ worker.req = 0
      /\ \A i \in DOMAIN requests : responses[i].status # "Pending" )
    => \E i \in DOMAIN requests : responses[i].status = "Err"

\* C16: when the quarantine path does not find the document any more, nothing
\* is written to quarantine and nothing is deleted, and the ensure call goes
\* on to insert an empty document for the subject and returns Ok.
C16_MissingCorruptDocumentNonFatal ==
    [][ /\ ( /\ worker.pc = "broken_find"
             /\ Matching(worker.subj, WorkerNamespace) = {}
             /\ worker' # worker
             /\ faults' = faults )
           => /\ store' = store
              /\ responses' = responses
              /\ worker'.pc = "ensure_insert"
              /\ worker'.doc = NoDoc
        /\ ( /\ worker.pc = "ensure_insert"
             /\ worker.doc = NoDoc
             /\ worker' # worker
             /\ faults' = faults )
           => LET docs == MatchingIn(player_stats', global_stats', worker.subj, WorkerNamespace)
              IN  /\ corrupt_stats' = corrupt_stats
                  /\ Cardinality(docs) = 1
                  /\ \A d \in docs : d.stats = EmptyMap
                  /\ responses'[worker.req].status # "Err"
                  /\ worker'.pc \notin EnsurePcs
      ]_vars

\* witness of C16: the lookup of an absent document failed, the quarantine
\* path found nothing, and the upload was answered Ok with one document for
\* the player and nothing in quarantine
C16_Witness ==
    /\ faults = 1
    /\ worker.req = 0
    /\ corrupt_stats = {}
    /\ \A i \in DOMAIN requests : responses[i].status \notin {"Err", "Pending"}
    /\ \E i \in DOMAIN requests : Touches(i, "p1", "ffa") /\ responses[i].status = "Ok"
    /\ Cardinality(Matching("p1", "ffa")) = 1

\* the value keys (stats.<name>.value) of the averages stored in a stats
\* field: the paths that end in value.total or value.count, without the last
\* segment
AverageKeys(f) ==
    {SubSeq(p, 1, Len(p) - 1) : p \in {q \in DOMAIN f :
        /\ Len(q) >= 3
        /\ q[Len(q) - 1] = "value"
        /\ q[Len(q)] \in {"total", "count"}}}

\* the stored average under value key vk is well formed: it has a total and
\* an int32 count of at least 1, and the total is one of the sums that many
\* samples can have
AverageWellFormed(f, vk) ==
    /\ vk \o <<"total">> \in DOMAIN f
    /\ vk \o <<"count">> \in DOMAIN f
    /\ f[vk \o <<"count">>].bt = "int32"
    /\ f[vk \o <<"count">>].n >= 1
    /\ f[vk \o <<"total">>].bt \in Numeric
    /\ f[vk \o <<"total">>].n >= f[vk \o <<"count">>].n
    /\ f[vk \o <<"total">>].n <= MaxValue * f[vk \o <<"count">>].n

StatsDocuments == player_stats \union global_stats

\* C17: every stored average has count >= 1; a step either leaves an average
\* alone or folds one sample into it (count + 1, total + sample), and an
\* average that is new in a document starts with count = 1.
C17_AverageCountsSamples ==
    [][ /\ \A d \in StatsDocuments : \A vk \in AverageKeys(d.stats) :
              AverageWellFormed(d.stats, vk)
        /\ \A e \in player_stats' \union global_stats' : \A vk \in AverageKeys(e.stats) :
              /\ AverageWellFormed(e.stats, vk)
              /\ LET count == e.stats[vk \o <<"count">>].n
                     total == e.stats[vk \o <<"total">>].n
                     before == {d \in StatsDocuments :
                                  d._id = e._id /\ vk \in AverageKeys(d.stats)}
                 IN  IF before = {}
                     THEN count = 1 /\ total \in 1..MaxValue
                     ELSE \A d \in before :
                            LET c == d.stats[vk \o <<"count">>].n
                                t == d.stats[vk \o <<"total">>].n
                            IN  \/ count = c /\ total = t
                                \/ count = c + 1 /\ (total - t) \in 1..MaxValue
      ]_vars

\* witness of C17: a rolling-average sample was folded into a document
C17_Witness ==
    /\ variant \in RollingAverages
    /\ \E d \in StatsDocuments :
        /\ AverageKeys(d.stats) # {}
        /\ \A vk \in AverageKeys(d.stats) : d.stats[vk \o <<"count">>].n = 1
        /\ \E i \in DOMAIN requests : IsUpload(i) /\ responses[i].status = "Ok"

\* C18: at most one profile per player and at most one stats document per
\* subject and namespace.
C18_OneRecordPerKey ==
    /\ \A i, j \in DOMAIN player_profiles :
        player_profiles[i].uuid = player_profiles[j].uuid => i = j
    /\ \A subj \in AllSubjects, ns \in Namespaces : Cardinality(Matching(subj, ns)) <= 1

\* witness of C18: two uploads and a username update for the same player
\* were answered Ok; the player has one profile and one document
C18_Witness ==
    /\ \E i, j \in DOMAIN requests :
        /\ i < j
        /\ Touches(i, "p1", "ffa") /\ responses[i].status = "Ok"
        /\ Touches(j, "p1", "ffa") /\ responses[j].status = "Ok"
    /\ \E k \in DOMAIN requests :
        IsUpdate(k) /\ requests[k].uuid = "p1" /\ responses[k].status = "Ok"
    /\ Len(player_profiles) = 1
    /\ Cardinality(Matching("p1", "ffa")) = 1

IsFetch(r) == requests[r].kind \in {"GetPlayerProfile", "GetPlayerStats"}

\* C19: while the worker handles a fetch of a profile or of player stats, no
\* step changes the profile, player-stats, global-stats or quarantine
\* collections, whatever the fetch is answered with.
C19_FetchesAreReadOnly ==
    [][ /\ (worker.req # 0 /\ IsFetch(worker.req)) => store' = store
        /\ (worker'.req # 0 /\ IsFetch(worker'.req)) => store' = store
      ]_vars

\* witness of C19: a fetch of player stats ended with an error and a fetch of
\* a profile was answered Ok, with documents in the store
C19_Witness ==
    /\ \E i \in DOMAIN requests :
        requests[i].kind = "GetPlayerStats" /\ responses[i].status = "Err"
    /\ \E j \in DOMAIN requests :
        requests[j].kind = "GetPlayerProfile" /\ responses[j].status = "Ok"
    /\ player_stats # {}

\* C20: when every name is always uploaded with the same variant (names
\* without '.', no failing round trip), every stats document decodes and
\* nothing is in quarantine.
C20_SameVariantAlwaysDecodes ==
    ( /\ faults = 0
      /\ \A i \in DOMAIN requests : IsUpload(i) => ~HasDottedName(requests[i].bundle) )
    => /\ \A d \in StatsDocuments : Decodes(d)
       /\ corrupt_stats = {}

QuarantinePcs == {"broken_find", "broken_insert", "broken_delete"}

\* C21: the quarantine path runs only for a document that fails to decode:
\* it is entered only when the subject has an undecodable document, and
\* every record in quarantine is a document that does not decode.
C21_QuarantineOnlyUndecodable ==
    /\ worker.pc = "broken_find"
       => \E d \in Matching(worker.subj, WorkerNamespace) : ~Decodes(d)
    /\ worker.pc \in {"broken_insert", "broken_delete"} => ~Decodes(worker.doc)
    /\ \A c \in corrupt_stats : ~Decodes(c)

\* C22: the quarantine copy is written before the original is deleted: a
\* step that removes a document from a stats collection finds its content in
\* quarantine already, the delete step is reached only with the copy in
\* place, a quarantine insert that does not succeed leaves the stats
\* collections alone, and quarantine never loses a record.
C22_CopyBeforeDelete ==
    [][ /\ \A d \in StatsDocuments :
              (\A e \in player_stats' \union global_stats' : e._id # d._id)
                  => \E c \in corrupt_stats :
                        SameContent(c, d) /\ c \in corrupt_stats'
        /\ corrupt_stats \subseteq corrupt_stats'
        /\ worker.pc = "broken_delete"
              => \E c \in corrupt_stats : SameContent(c, worker.doc)
        /\ (worker.pc = "broken_insert" /\ worker'.pc # "broken_delete")
              => player_stats' = player_stats /\ global_stats' = global_stats
      ]_vars

\* witness of C22: the copy of an undecodable document was written and the
\* delete of the original failed; the content is in both places
C22_Witness ==
    /\ faults = 1
    /\ worker.req = 0
    /\ \E c \in corrupt_stats, d \in StatsDocuments :
        /\ c._id = d._id
        /\ SameContent(c, d)
        /\ ~Decodes(d)
    /\ \E i \in DOMAIN requests : responses[i].cause = "transport"

\* request i has its result
Answered(i) == i \in DOMAIN responses /\ responses[i].status # "Pending"

\* C23: every request that was enqueued is eventually answered; a result is
\* written once, by the handler of the request it belongs to, and is a
\* result of that request's kind.
C23_EveryRequestAnswered ==
    /\ \A i \in 1..MaxRequests : (i \in DOMAIN requests) ~> Answered(i)
    /\ [][ /\ \A i \in DOMAIN responses :
                responses'[i] # responses[i]
                    => /\ responses[i].status = "Pending"
                       /\ worker.req = i
                       /\ responses'[i].status # "Pending"
           /\ \A i \in DOMAIN responses' :
                /\ responses'[i].status = "NotFound" => IsFetch(i)'
                /\ responses'[i].status = "BadRequest" => IsUpload(i)'
                /\ responses'[i].stats # EmptyMap => requests'[i].kind = "GetPlayerStats"
                /\ responses'[i].username # None => requests'[i].kind = "GetPlayerProfile"
         ]_vars

\* witness of C23: three requests of different kinds were enqueued and all
\* of them have their result
C23_Witness ==
    /\ Len(requests) = MaxRequests
    /\ \A i \in DOMAIN requests : Answered(i)
    /\ \E i, j, k \in DOMAIN requests :
        /\ IsUpload(i) /\ responses[i].status = "Ok"
        /\ requests[j].kind = "GetPlayerStats" /\ responses[j].stats # EmptyMap
        /\ IsUpdate(k)
====
